---- MODULE Spec2Model ----
(***************************************************************************)
(* Model of axum-negotiate-layer: the per-connection NegotiateState cell   *)
(* (Arc<RwLock<NegotiateState>>) and NegotiateMiddleware::call, which      *)
(* drives it.  One connection, served by several worker threads: the tower *)
(* service is invoked from the per-request task, so two requests of one    *)
(* multiplexed connection can be inside call() at the same time.           *)
(***************************************************************************)
EXTENDS Integers, Sequences, FiniteSets, TLC

(* ---------------------------- bounds ----------------------------------- *)
\* number of requests the connection receives in a behaviour
MaxRequests == 3
\* number of requests of a behaviour in which they come one after another
MaxSeqRequests == 4
\* number of requests of the connection that can be in call() at once
MaxThreads == 3

Threads == 1..MaxThreads

(* ------------------- base64 (BASE64_STANDARD engine) ------------------- *)
\* A base64 text is a sequence of symbols: 0..63 is the index of a letter
\* of the standard alphabet, PAD is '=', BadSym is a byte outside of it.
PAD == 64
BadSym == 65

\* the encoding of an engine without padding (STANDARD_NO_PAD)
RECURSIVE EncodeNoPad(_)
EncodeNoPad(bytes) ==
    IF Len(bytes) = 0 THEN <<>>
    ELSE IF Len(bytes) = 1 THEN
        << bytes[1] \div 4, (bytes[1] % 4) * 16 >>
    ELSE IF Len(bytes) = 2 THEN
        << bytes[1] \div 4,
           (bytes[1] % 4) * 16 + bytes[2] \div 16,
           (bytes[2] % 16) * 4 >>
    ELSE
        << bytes[1] \div 4,
           (bytes[1] % 4) * 16 + bytes[2] \div 16,
           (bytes[2] % 16) * 4 + bytes[3] \div 64,
           bytes[3] % 64 >> \o EncodeNoPad(SubSeq(bytes, 4, Len(bytes)))

RECURSIVE Encode(_)
Encode(bytes) ==
    IF Len(bytes) = 0 THEN <<>>
    ELSE IF Len(bytes) = 1 THEN
        << bytes[1] \div 4, (bytes[1] % 4) * 16, PAD, PAD >>
    ELSE IF Len(bytes) = 2 THEN
        << bytes[1] \div 4,
           (bytes[1] % 4) * 16 + bytes[2] \div 16,
           (bytes[2] % 16) * 4,
           PAD >>
    ELSE
        << bytes[1] \div 4,
           (bytes[1] % 4) * 16 + bytes[2] \div 16,
           (bytes[2] % 16) * 4 + bytes[3] \div 64,
           bytes[3] % 64 >> \o Encode(SubSeq(bytes, 4, Len(bytes)))

IsSym(c) == c \in 0..63

\* the last quantum of a padded text: canonical padding, no trailing bits
LastQuadOk(q) ==
    /\ IsSym(q[1]) /\ IsSym(q[2])
    /\ \/ IsSym(q[3]) /\ IsSym(q[4])
       \/ IsSym(q[3]) /\ q[4] = PAD /\ q[3] % 4 = 0
       \/ q[3] = PAD /\ q[4] = PAD /\ q[2] % 16 = 0

QuadBytes(q) ==
    IF q[3] = PAD THEN << q[1] * 4 + q[2] \div 16 >>
    ELSE IF q[4] = PAD THEN
        << q[1] * 4 + q[2] \div 16, (q[2] % 16) * 16 + q[3] \div 4 >>
    ELSE
        << q[1] * 4 + q[2] \div 16,
           (q[2] % 16) * 16 + q[3] \div 4,
           (q[3] % 4) * 64 + q[4] >>

RECURSIVE Decodable(_)
Decodable(text) ==
    IF Len(text) = 0 THEN TRUE
    ELSE IF Len(text) < 4 THEN FALSE
    ELSE IF Len(text) = 4 THEN LastQuadOk(text)
    ELSE /\ \A i \in 1..4 : IsSym(text[i])
         /\ Decodable(SubSeq(text, 5, Len(text)))

RECURSIVE DecodeBytes(_)
DecodeBytes(text) ==
    IF Len(text) = 0 THEN <<>>
    ELSE QuadBytes(SubSeq(text, 1, 4)) \o DecodeBytes(SubSeq(text, 5, Len(text)))

\* BASE64_STANDARD.decode: Ok(bytes) or Err
Decode(text) ==
    IF Decodable(text) THEN [ok |-> TRUE, bytes |-> DecodeBytes(text)]
    ELSE [ok |-> FALSE, bytes |-> <<>>]

(* ------------------------------ headers -------------------------------- *)
\* A header value is absent, not visible ASCII (to_str fails), or a text
\* split at the place where strip_prefix("Negotiate ") would cut it.
NoHeader == [kind |-> "none", prefix |-> "", rest |-> <<>>]
OpaqueHeader == [kind |-> "opaque", prefix |-> "", rest |-> <<>>]
TextHeader(p, r) == [kind |-> "text", prefix |-> p, rest |-> r]

\* bytes a server context answers with (two bytes: one padding symbol)
ServerBytes == { <<161, 27>> }

\* texts a client sends that BASE64_STANDARD accepts ("YIIo")
GoodTexts == { <<24, 8, 8, 40>> }

\* texts a client sends that BASE64_STANDARD rejects (byte outside the alphabet)
BadTexts == { <<24, BadSym, 2, 0>> }

AuthorizationValues ==
    {NoHeader, OpaqueHeader, TextHeader("Negotiate", <<24, 8, 8, 40>>)}
    \cup {TextHeader("Negotiate ", t) : t \in GoodTexts}
    \cup {TextHeader("Negotiate ", t) : t \in BadTexts}

to_negotiate_header(token_bytes) == TextHeader("Negotiate ", Encode(token_bytes))

(* ----------------------------- responses ------------------------------- *)
Response(st, www, conn, body) ==
    [status |-> st, www |-> www, connection |-> conn, body |-> body]

NoResponse == Response(0, <<>>, "", "")

www_authenticate_map == [www |-> << TextHeader("Negotiate", <<>>) >>, connection |-> "keep-alive"]

unauthorized(message) ==
    Response(401, www_authenticate_map.www, www_authenticate_map.connection, message)

\* a context failure answered like a missing header
failed_to_create_context_challenge == unauthorized("internal server error")

failed_to_create_context == Response(500, <<>>, "", "internal server error")

\* what the inner service answers; the middleware cannot influence it
InnerResponses == { Response(200, <<>>, "", "Hello, whoever!") }

(* ------------------------- NegotiateState ------------------------------ *)
\* a handshake context: the id the ContextBuilder gave it and the number of
\* steps taken on it (every step consumes the context and yields a new one)
NoCtx == [id |-> 0, round |-> 0]

Clients == {"alice", "bob"}

Unauthorized == [tag |-> "Unauthorized", ctx |-> NoCtx, client |-> ""]
Pending(context) == [tag |-> "Pending", ctx |-> context, client |-> ""]
Authenticated(context, who) == [tag |-> "Authenticated", ctx |-> context, client |-> who]

\* #[default] of NegotiateState, what std::mem::take leaves behind
DefaultState == Unauthorized

is_authenticated_pending_too(s) == s.tag # "Unauthorized"

is_authenticated(s) == s.tag = "Authenticated"

(* --------------------------- StepResult -------------------------------- *)
None == [some |-> FALSE, bytes |-> <<>>]
Some(b) == [some |-> TRUE, bytes |-> b]

NoResult ==
    [kind |-> "none", ctx |-> NoCtx, client |-> "", token |-> None,
     resp |-> NoResponse, bytes |-> <<>>]
Finished(f, who, maybe_token) ==
    [kind |-> "Finished", ctx |-> f, client |-> who, token |-> maybe_token,
     resp |-> NoResponse, bytes |-> <<>>]
\* bytes: the response bytes of the step, which the response was built from
ContinueWith(context, response, response_bytes) ==
    [kind |-> "ContinueWith", ctx |-> context, client |-> "", token |-> None,
     resp |-> response, bytes |-> response_bytes]
Error(response) ==
    [kind |-> "Error", ctx |-> NoCtx, client |-> "", token |-> None,
     resp |-> response, bytes |-> <<>>]

\* what context.step can return: the security package is opaque to the layer
StepOutcomes ==
    {[kind |-> "Continue", client |-> "", token |-> None, bytes |-> b] : b \in ServerBytes}
    \cup {[kind |-> "Finished", client |-> c, token |-> m, bytes |-> <<>>] :
            c \in Clients, m \in {None} \cup {Some(b) : b \in ServerBytes}}
    \cup {[kind |-> "Err", client |-> "", token |-> None, bytes |-> <<>>]}

Stepped(context) == [id |-> context.id, round |-> context.round + 1]

\* the context that handle_sspi passes to context.step: none when the
\* token does not decode
StepArgument(context, token) == IF Decode(token).ok THEN context ELSE NoCtx

\* a handle_sspi that answers a failed step like an undecodable token
handle_sspi_bad_request(context, token, o) ==
    IF ~Decode(token).ok THEN Error(Response(400, <<>>, "", ""))
    ELSE IF o.kind = "Continue" THEN
        ContinueWith(Stepped(context),
                     Response(401, << to_negotiate_header(o.bytes) >>, "keep-alive", "continue"),
                     o.bytes)
    ELSE IF o.kind = "Finished" THEN
        Finished(Stepped(context), o.client, o.token)
    ELSE Error(Response(400, <<>>, "", ""))

handle_sspi(context, token, o) ==
    IF ~Decode(token).ok THEN Error(Response(400, <<>>, "", ""))
    ELSE IF o.kind = "Continue" THEN
        ContinueWith(Stepped(context),
                     Response(401, << to_negotiate_header(o.bytes) >>, "keep-alive", "continue"),
                     o.bytes)
    ELSE IF o.kind = "Finished" THEN
        Finished(Stepped(context), o.client, o.token)
    ELSE Error(unauthorized("authorization failed"))

(* --------------------------- extract_token ----------------------------- *)
\* an extract_token that strips "Negotiate" without the blank after it
extract_token_no_blank(authorization) ==
    IF authorization.kind = "none" THEN
        [ok |-> FALSE, token |-> <<>>, resp |-> unauthorized("No Authorization given")]
    ELSE IF authorization.kind = "text" /\ authorization.prefix \in {"Negotiate ", "Negotiate"} THEN
        [ok |-> TRUE, token |-> authorization.rest, resp |-> NoResponse]
    ELSE
        [ok |-> FALSE, token |-> <<>>, resp |-> unauthorized("Invalid Authorization Header")]

\* Ok(token) or Err(response)
extract_token(authorization) ==
    IF authorization.kind = "none" THEN
        [ok |-> FALSE, token |-> <<>>, resp |-> unauthorized("No Authorization given")]
    ELSE IF authorization.kind = "text" /\ authorization.prefix = "Negotiate " THEN
        [ok |-> TRUE, token |-> authorization.rest, resp |-> NoResponse]
    ELSE
        [ok |-> FALSE, token |-> <<>>, resp |-> unauthorized("Invalid Authorization Header")]

(* ------------------------------ state ---------------------------------- *)
VARIABLES
    state,      \* the NegotiateState in the connection's RwLock
    lock,       \* 0: RwLock free, t: thread t holds the write guard
    poisoned,   \* the RwLock was poisoned by a panic under the write guard
    nextCtx,    \* number of contexts ContextBuilder::new has built
    cur,        \* per thread: the request inside call() and its locals
    log,        \* the requests that left call(), in order of leaving
    nreq,       \* number of requests that entered call()
    handles,    \* an Authenticated was made by from_request_parts
    probe,      \* the last use of the state by code behind the layer
    cells,      \* listener: the NegotiateState cells that were allocated
    conns,      \* listener: per accepted connection, the cell of its Negotiator
    clog,       \* listener: the requests served, with the cells before and after
    mcell,      \* two mechanisms: the state of the connection
    mlog        \* two mechanisms: the steps taken

vars == <<state, lock, poisoned, nextCtx, cur, log, nreq, handles, probe,
          cells, conns, clog, mcell, mlog>>

\* the connections of a listener
listener == <<cells, conns, clog>>

\* the connection of a layer with two mechanisms
mechanisms == <<mcell, mlog>>

\* what NegotiateMiddleware::call on the one connection does not touch
outside == <<handles, probe, listener, mechanisms>>

NoProbe == [op |-> "none", tag |-> "", poisoned |-> FALSE, outcome |-> ""]

\* a thread that is not inside call()
Idle ==
    [pc |-> "idle", hdr |-> NoHeader, seen |-> Unauthorized, token |-> <<>>,
     taken |-> Unauthorized, path |-> "", result |-> NoResult,
     fwd |-> FALSE, fwdwww |-> <<>>, ext |-> FALSE, resp |-> NoResponse,
     panicked |-> FALSE, conc |-> FALSE,
     late |-> FALSE, used |-> NoCtx, bound |-> TRUE]

Init ==
    /\ state = DefaultState
    /\ lock = 0
    /\ poisoned = FALSE
    /\ nextCtx = 0
    /\ cur = [t \in Threads |-> Idle]
    /\ log = <<>>
    /\ nreq = 0
    /\ handles = FALSE
    /\ probe = NoProbe
    /\ cells = <<>>
    /\ conns = <<>>
    /\ clog = <<>>
    /\ mcell = [tag |-> "Unauthorized", mech |-> "none", round |-> 0]
    /\ mlog = <<>>

\* the request of thread t leaves call(): c is its final record
\* and s the state it leaves in the cell
Leave(t, c, s) ==
    /\ log' = Append(log, [c EXCEPT !.pc = "done"] @@ [after |-> s])
    /\ cur' = [cur EXCEPT ![t] = Idle]

(* ------------------- NegotiateMiddleware::call ------------------------- *)
\* a request has left call() through the Finished arm: the connection has
\* been authenticated
Authenticating == \E i \in DOMAIN log : log[i].result.kind = "Finished"

\* a request with Authorization header h enters call() on thread t:
\* into_parts, get_state_from_extension.  The threads are interchangeable,
\* the request is given to the first one that is free.
Enter(t, h) ==
    /\ cur[t].pc = "idle"
    /\ \A u \in Threads : u < t => cur[u].pc # "idle"
    /\ nreq' = nreq + 1
    /\ LET busy == \E u \in Threads : u # t /\ cur[u].pc # "idle" IN
       cur' = [u \in Threads |->
                 IF u = t THEN [Idle EXCEPT !.pc = "check", !.hdr = h, !.conc = busy,
                                            !.late = Authenticating]
                 ELSE IF cur[u].pc # "idle" THEN [cur[u] EXCEPT !.conc = TRUE]
                 ELSE cur[u]]
    /\ UNCHANGED <<state, lock, poisoned, nextCtx, log, outside>>

Call(t, h) ==
    /\ nreq < MaxRequests
    /\ Enter(t, h)

\* the same on a runtime with a single worker: the next request enters
\* when the previous one has left call()
CallSeq(h) ==
    /\ nreq < MaxSeqRequests
    /\ Enter(1, h)

\* auth.read().unwrap() on a poisoned lock panics
ReadPoisoned(t) ==
    /\ cur[t].pc = "check"
    /\ lock = 0
    /\ poisoned
    /\ Leave(t, [cur[t] EXCEPT !.path = "panic", !.panicked = TRUE], state)
    /\ UNCHANGED <<state, lock, poisoned, nextCtx, nreq, outside>>

\* fast path: the state is authenticated, the request goes to the inner
\* service as it came in and the inner service's response r is returned
FastPath(t, r) ==
    /\ cur[t].pc = "check"
    /\ lock = 0
    /\ ~poisoned
    /\ is_authenticated(state)
    /\ Leave(t, [cur[t] EXCEPT !.path = "fast", !.seen = state,
                               !.fwd = TRUE, !.resp = r], state)
    /\ UNCHANGED <<state, lock, poisoned, nextCtx, nreq, outside>>

\* not authenticated and extract_token fails: its response is returned
Rejected(t) ==
    /\ cur[t].pc = "check"
    /\ lock = 0
    /\ ~poisoned
    /\ ~is_authenticated(state)
    /\ ~extract_token(cur[t].hdr).ok
    /\ Leave(t, [cur[t] EXCEPT !.path = "rejected", !.seen = state,
                               !.resp = extract_token(cur[t].hdr).resp], state)
    /\ UNCHANGED <<state, lock, poisoned, nextCtx, nreq, outside>>

\* not authenticated and a token was extracted: go for the write lock
Extracted(t) ==
    /\ cur[t].pc = "check"
    /\ lock = 0
    /\ ~poisoned
    /\ ~is_authenticated(state)
    /\ extract_token(cur[t].hdr).ok
    /\ cur' = [cur EXCEPT ![t].pc = "lock", ![t].seen = state,
                          ![t].token = extract_token(cur[t].hdr).token]
    /\ UNCHANGED <<state, lock, poisoned, nextCtx, log, nreq, outside>>

\* auth.write().unwrap() on a poisoned lock panics
WritePoisoned(t) ==
    /\ cur[t].pc = "lock"
    /\ lock = 0
    /\ poisoned
    /\ Leave(t, [cur[t] EXCEPT !.path = "panic", !.panicked = TRUE], state)
    /\ UNCHANGED <<state, lock, poisoned, nextCtx, nreq, outside>>

\* a write() that does not wait for the guard of another thread
CanWriteUnguarded(t) == TRUE

\* auth.write() returns once no other guard is held
CanWrite(t) == lock = 0

\* let mut lock = auth.write().unwrap(); std::mem::take(&mut *lock)
TakeState(t) ==
    /\ cur[t].pc = "lock"
    /\ CanWrite(t)
    /\ ~poisoned
    /\ lock' = t
    /\ state' = DefaultState
    /\ cur' = [cur EXCEPT ![t].pc = "taken", ![t].taken = state, ![t].path = "step"]
    /\ UNCHANGED <<poisoned, nextCtx, log, nreq, outside>>

\* NegotiateState::Authenticated(_) => unreachable!(): the panic unwinds
\* through the write guard, which poisons the lock and releases it
TakenAuthenticated(t) ==
    /\ cur[t].pc = "taken"
    /\ cur[t].taken.tag = "Authenticated"
    /\ lock' = 0
    /\ poisoned' = TRUE
    /\ Leave(t, [cur[t] EXCEPT !.path = "panic", !.panicked = TRUE], state)
    /\ UNCHANGED <<state, nextCtx, nreq, outside>>

\* NegotiateState::Pending(context) => handle_sspi(context, token)
StepPending(t, o) ==
    /\ cur[t].pc = "taken"
    /\ cur[t].taken.tag = "Pending"
    /\ cur' = [cur EXCEPT ![t].pc = "stepped",
                          ![t].used = StepArgument(cur[t].taken.ctx, cur[t].token),
                          ![t].result = handle_sspi(cur[t].taken.ctx, cur[t].token, o)]
    /\ UNCHANGED <<state, lock, poisoned, nextCtx, log, nreq, outside>>

\* NegotiateState::Unauthorized, ContextBuilder::new is Ok(context)
StepUnauthorized(t, o) ==
    /\ cur[t].pc = "taken"
    /\ cur[t].taken.tag = "Unauthorized"
    /\ nextCtx' = nextCtx + 1
    /\ cur' = [cur EXCEPT ![t].pc = "stepped",
                          ![t].used = StepArgument([id |-> nextCtx + 1, round |-> 0],
                                                   cur[t].token),
                          ![t].result = handle_sspi([id |-> nextCtx + 1, round |-> 0],
                                                    cur[t].token, o)]
    /\ UNCHANGED <<state, lock, poisoned, log, nreq, outside>>

\* NegotiateState::Unauthorized, ContextBuilder::new is Err: return the 500;
\* the guard is dropped, the cell keeps what take left in it
ContextFailed(t) ==
    /\ cur[t].pc = "taken"
    /\ cur[t].taken.tag = "Unauthorized"
    /\ lock' = 0
    /\ Leave(t, [cur[t] EXCEPT !.path = "ctxfail", !.resp = failed_to_create_context], state)
    /\ UNCHANGED <<state, poisoned, nextCtx, nreq, outside>>

\* the request that goes to the inner service after a Finished step
ForwardedAfterFinished(c) ==
    [www |-> IF c.result.token.some
             THEN << to_negotiate_header(c.result.token.bytes) >> ELSE <<>>,
     ext |-> TRUE]

\* StepResult::Finished, up to self.inner.call(request); r is the response
\* the inner service's future resolves to
CallInner(t, r) ==
    /\ cur[t].pc = "stepped"
    /\ cur[t].result.kind = "Finished"
    /\ cur' = [cur EXCEPT ![t].pc = "called", ![t].fwd = TRUE,
                          ![t].fwdwww = ForwardedAfterFinished(cur[t]).www,
                          ![t].ext = ForwardedAfterFinished(cur[t]).ext,
                          ![t].resp = r]
    /\ UNCHANGED <<state, lock, poisoned, nextCtx, log, nreq, outside>>

\* a Finished arm without the assignment to *lock
InstallAuthenticatedForgotten(t) ==
    /\ cur[t].pc = "called"
    /\ state' = state
    /\ lock' = 0
    /\ Leave(t, cur[t], state')
    /\ UNCHANGED <<poisoned, nextCtx, nreq, outside>>

\* *lock = NegotiateState::Authenticated(f); the guard is dropped on return
InstallAuthenticated(t) ==
    /\ cur[t].pc = "called"
    /\ state' = Authenticated(cur[t].result.ctx, cur[t].result.client)
    /\ lock' = 0
    /\ Leave(t, cur[t], state')
    /\ UNCHANGED <<poisoned, nextCtx, nreq, outside>>

\* StepResult::ContinueWith(server_context, response)
InstallPending(t) ==
    /\ cur[t].pc = "stepped"
    /\ cur[t].result.kind = "ContinueWith"
    /\ state' = Pending(cur[t].result.ctx)
    /\ lock' = 0
    /\ Leave(t, [cur[t] EXCEPT !.resp = cur[t].result.resp], state')
    /\ UNCHANGED <<poisoned, nextCtx, nreq, outside>>

\* an Error arm that puts the taken state back
InstallUnauthorizedRestores(t) ==
    /\ cur[t].pc = "stepped"
    /\ cur[t].result.kind = "Error"
    /\ state' = cur[t].taken
    /\ lock' = 0
    /\ Leave(t, [cur[t] EXCEPT !.resp = cur[t].result.resp], state')
    /\ UNCHANGED <<poisoned, nextCtx, nreq, outside>>

\* StepResult::Error(response)
InstallUnauthorized(t) ==
    /\ cur[t].pc = "stepped"
    /\ cur[t].result.kind = "Error"
    /\ state' = Unauthorized
    /\ lock' = 0
    /\ Leave(t, [cur[t] EXCEPT !.resp = cur[t].result.resp], state')
    /\ UNCHANGED <<poisoned, nextCtx, nreq, outside>>

Next ==
    \/ \E t \in Threads, h \in AuthorizationValues : Call(t, h)
    \/ \E t \in Threads : ReadPoisoned(t)
    \/ \E t \in Threads, r \in InnerResponses : FastPath(t, r)
    \/ \E t \in Threads : Rejected(t)
    \/ \E t \in Threads : Extracted(t)
    \/ \E t \in Threads : WritePoisoned(t)
    \/ \E t \in Threads : TakeState(t)
    \/ \E t \in Threads : TakenAuthenticated(t)
    \/ \E t \in Threads, o \in StepOutcomes : StepPending(t, o)
    \/ \E t \in Threads, o \in StepOutcomes : StepUnauthorized(t, o)
    \/ \E t \in Threads : ContextFailed(t)
    \/ \E t \in Threads, r \in InnerResponses : CallInner(t, r)
    \/ \E t \in Threads : InstallAuthenticated(t)
    \/ \E t \in Threads : InstallPending(t)
    \/ \E t \in Threads : InstallUnauthorized(t)

Spec == Init /\ [][Next]_vars

\* One worker thread: call() has no await point, so the requests of the
\* connection pass through it one after another.  The three panics need a
\* second thread and are not part of this specification.
NextSeq ==
    \/ \E h \in AuthorizationValues : CallSeq(h)
    \/ \E r \in InnerResponses : FastPath(1, r)
    \/ Rejected(1)
    \/ Extracted(1)
    \/ TakeState(1)
    \/ \E o \in StepOutcomes : StepPending(1, o)
    \/ \E o \in StepOutcomes : StepUnauthorized(1, o)
    \/ ContextFailed(1)
    \/ \E r \in InnerResponses : CallInner(1, r)
    \/ InstallAuthenticated(1)
    \/ InstallPending(1)
    \/ InstallUnauthorized(1)

SpecSeq == Init /\ [][NextSeq]_vars

(* ------------------------------ claims --------------------------------- *)
Entries == {log[i] : i \in DOMAIN log}

InStep == {t \in Threads : cur[t].pc \in {"taken", "stepped", "called"}}

BareChallenge == TextHeader("Negotiate", <<>>)

\* an Authorization value of the form "Negotiate <token>"
IsNegotiate(h) == h.kind = "text" /\ h.prefix = "Negotiate "

\* C1: the inner service is called for a request only if the state was
\* Authenticated at its fast-path check or its own step returned Finished;
\* a request that ends without header, in Continue, in a failure or in a
\* failed context construction never reaches the inner service.
C1_DownstreamOnlyAuthenticated ==
    /\ \A e \in Entries :
        /\ e.fwd => \/ e.path = "fast" /\ e.seen.tag = "Authenticated"
                    \/ e.path = "step" /\ e.result.kind = "Finished"
        /\ \/ e.path \in {"rejected", "ctxfail", "panic"}
           \/ e.result.kind \in {"ContinueWith", "Error"}
           => ~e.fwd
    /\ \A t \in Threads : cur[t].fwd => cur[t].result.kind = "Finished"

C1_Witness ==
    \E e, f, g \in Entries :
        /\ e.fwd /\ e.path = "fast"
        /\ f.fwd /\ f.result.kind = "Finished"
        /\ ~g.fwd /\ g.result.kind = "ContinueWith"

\* C2: once the state is Authenticated it stays Authenticated with the same
\* identity, and a step only moves the state Unauthorized -> Pending,
\* Pending -> Pending, Unauthorized/Pending -> Authenticated or
\* Unauthorized/Pending -> Unauthorized.
C2_StickyAuthentication ==
    /\ [][state.tag = "Authenticated" => state' = state]_vars
    /\ [](\A e \in Entries : e.path \in {"step", "panic"} =>
            e.taken.tag \in {"Unauthorized", "Pending"})

\* C3: at most one request is between taking the state and installing the
\* new one, it is the holder of the write guard, and a request reads or
\* takes the state only while no other request is in that section.
C3_StepsSerialized ==
    /\ [](/\ Cardinality(InStep) <= 1
          /\ \A t \in Threads : t \in InStep <=> lock = t)
    /\ [][\A t \in Threads :
            (cur[t].pc \in {"check", "lock"} /\ cur'[t].pc # cur[t].pc)
            => InStep \subseteq {t}]_vars

C3_Witness ==
    \E t, u \in Threads : cur[t].pc = "stepped" /\ cur[u].pc = "lock"

\* C4: full handshake, requests one after another on a fresh connection:
\* req1 without header gets 401 with the bare challenge and the state stays
\* Unauthorized; req2 whose step continues gets 401 with the token of the
\* step and the state is Pending; req3 whose step finishes is forwarded and
\* the state is Authenticated; req4 without header is forwarded on the fast
\* path, without challenge and without a step.
Leg1 == Len(log) >= 1 /\ log[1].hdr = NoHeader
Leg2 == Leg1 /\ Len(log) >= 2 /\ log[2].result.kind = "ContinueWith"
Leg3 == Leg2 /\ Len(log) >= 3 /\ log[3].result.kind = "Finished"
Leg4 == Leg3 /\ Len(log) >= 4 /\ log[4].hdr = NoHeader

C4_ScenarioA ==
    /\ Leg1 => /\ log[1].resp.status = 401
               /\ log[1].resp.www = << BareChallenge >>
               /\ ~log[1].fwd
               /\ log[1].after = Unauthorized
    /\ Leg2 => /\ log[2].resp.status = 401
               /\ log[2].resp.www = << to_negotiate_header(log[2].result.bytes) >>
               /\ ~log[2].fwd
               /\ log[2].after = Pending(log[2].result.ctx)
    /\ Leg3 => /\ log[3].fwd
               /\ log[3].resp \in InnerResponses
               /\ log[3].taken = log[2].after
               /\ log[3].after = Authenticated(log[3].result.ctx, log[3].result.client)
    /\ Leg4 => /\ log[4].fwd
               /\ log[4].path = "fast"
               /\ log[4].resp \in InnerResponses
               /\ log[4].result = NoResult
               /\ log[4].after = log[3].after

C4_Witness == Leg4 /\ \A e \in Entries : ~e.conc

\* C5: a request on a connection that is not authenticated, without an
\* Authorization of the form "Negotiate <token>", gets 401 with the bare
\* challenge and Connection: keep-alive; it leaves the state, the lock and
\* the contexts as they were and takes no step.
C5_NoTokenChallenge ==
    /\ [](\A e \in Entries :
            (~e.panicked /\ e.seen.tag # "Authenticated" /\ ~IsNegotiate(e.hdr)) =>
                /\ e.path = "rejected"
                /\ e.resp.status = 401
                /\ e.resp.www = << BareChallenge >>
                /\ e.resp.connection = "keep-alive"
                /\ ~e.fwd
                /\ e.result = NoResult
                /\ e.after = e.seen)
    /\ [][\A t \in Threads :
            (cur[t].pc = "check" /\ ~IsNegotiate(cur[t].hdr) /\ cur'[t].pc # "check")
            => UNCHANGED <<state, lock, poisoned, nextCtx>>]_vars

C5_Witness ==
    \E e, f \in Entries :
        /\ e.path = "rejected" /\ e.seen.tag = "Pending" /\ e.hdr = NoHeader
        /\ f.path = "rejected" /\ f.seen.tag = "Unauthorized" /\ f.hdr # NoHeader

\* the token of the request was handed to handle_sspi and did not decode
BadBase64(e) == e.result.kind # "none" /\ ~Decode(e.hdr.rest).ok

\* C6 as stated: a request whose token cannot be base64-decoded gets 400
\* and the state after it equals the state before it.
C6_BadBase64StateUnchanged ==
    \A e \in Entries : BadBase64(e) => e.resp.status = 400 /\ e.after = e.taken

\* C6 amended: a request whose token reaches the decoder and cannot be
\* base64-decoded gets 400 without challenge, is not forwarded, and the state
\* after it is Unauthorized: a Pending connection loses its context.
C6_BadBase64Resets ==
    \A e \in Entries : BadBase64(e) =>
        /\ e.resp = Response(400, <<>>, "", "")
        /\ ~e.fwd
        /\ e.after = Unauthorized

C6_Witness ==
    \E e \in Entries : BadBase64(e) /\ e.taken.tag = "Pending" /\ e.after = Unauthorized

\* the step of the request failed on a token that decoded
StepFailed(e) == e.result.kind = "Error" /\ Decode(e.hdr.rest).ok

\* C7: when the step fails on a decodable token the response is 401 with
\* the generic failure message and the state is Unauthorized afterwards,
\* from Unauthorized and from Pending; the next request on the connection
\* starts a handshake on a fresh context, and is Authenticated when that
\* step finishes.
C7_ProtocolRejection ==
    /\ \A e \in Entries : StepFailed(e) =>
        /\ e.resp.status = 401
        /\ e.resp.body = "authorization failed"
        /\ ~e.fwd
        /\ e.after = Unauthorized
    /\ \A i \in DOMAIN log :
        (i > 1 /\ StepFailed(log[i-1]) /\ log[i].result.kind # "none") =>
            /\ log[i].taken = Unauthorized
            /\ \A j \in 1..(i-1) : log[j].result.ctx.id < log[i].result.ctx.id
                                   \/ log[i].result.kind = "Error"
            /\ log[i].result.kind = "Finished" => log[i].after.tag = "Authenticated"
            /\ log[i].result.kind = "ContinueWith" => log[i].after.tag = "Pending"

C7_Witness ==
    \E i \in DOMAIN log :
        /\ i > 1 /\ StepFailed(log[i-1]) /\ log[i-1].taken.tag = "Pending"
        /\ log[i].result.kind = "Finished" /\ log[i].after.tag = "Authenticated"

\* C8: when the step continues with a new context and bytes, the state
\* becomes Pending with the new context, the response is 401 with one
\* WWW-Authenticate: Negotiate <base64 of the bytes> and Connection:
\* keep-alive, and the inner service is not called.
C8_ContinueChallenge ==
    \A e \in Entries : e.result.kind = "ContinueWith" =>
        /\ e.after = Pending(e.result.ctx)
        /\ e.result.ctx.round = e.taken.ctx.round + 1
        /\ e.resp.status = 401
        /\ Len(e.resp.www) = 1
        /\ e.resp.www[1].kind = "text"
        /\ e.resp.www[1].prefix = "Negotiate "
        /\ Decode(e.resp.www[1].rest) = [ok |-> TRUE, bytes |-> e.result.bytes]
        /\ e.resp.connection = "keep-alive"
        /\ ~e.fwd

C8_Witness ==
    \E e \in Entries : e.result.kind = "ContinueWith" /\ e.taken.tag = "Pending"

\* C9: when the step finishes with a final token, the response returned for
\* the request carries WWW-Authenticate: Negotiate <base64 of the token>,
\* and the request is forwarded to the inner service.
C9_FinalTokenOnResponse ==
    \A e \in Entries : (e.result.kind = "Finished" /\ e.result.token.some) =>
        /\ e.fwd
        /\ \E k \in DOMAIN e.resp.www :
              e.resp.www[k] = to_negotiate_header(e.result.token.bytes)

\* C10: every request that is forwarded to the inner service carries the
\* Authenticated extension, after a Finished step and on the fast path.
C10_ForwardedCarriesHandle ==
    \A e \in Entries : e.fwd => e.ext

\* C12: once the connection is Authenticated, every later request without
\* Authorization header is forwarded to the inner service on the fast path
\* under the identity that was installed, and no later request takes a
\* handshake step.
C12_AuthenticatedForwardsAll ==
    \A e \in Entries : e.late =>
        /\ e.used = NoCtx
        /\ e.hdr = NoHeader =>
            /\ e.fwd
            /\ e.path = "fast"
            /\ \A f \in Entries : f.result.kind = "Finished" => e.seen = f.after

\* C15: when the taken state is Unauthorized and ContextBuilder::new fails,
\* the response is 500 "internal server error", no step is taken, the inner
\* service is not called, and the request leaves the state Unauthorized and
\* the lock free.
CtxFailLeaves(t) ==
    /\ cur[t].pc = "taken"
    /\ Len(log') = Len(log) + 1
    /\ log'[Len(log')].path = "ctxfail"

C15_ContextCreationFailure ==
    /\ [](\A e \in Entries : e.path = "ctxfail" =>
            /\ e.taken = Unauthorized
            /\ e.resp = Response(500, <<>>, "", "internal server error")
            /\ e.used = NoCtx
            /\ e.result = NoResult
            /\ ~e.fwd
            /\ e.after = Unauthorized)
    /\ [][\A t \in Threads : CtxFailLeaves(t) =>
            /\ lock = t /\ lock' = 0
            /\ state' = Unauthorized
            /\ poisoned' = poisoned
            /\ nextCtx' = nextCtx]_vars

C15_Witness ==
    \E e \in Entries : e.path = "ctxfail" /\ e.resp.status = 500 /\ lock = 0

\* C16: no request holds the write guard with a taken state that is
\* Authenticated: the unreachable!() arm is never executed.
C16_UnreachableNeverReached ==
    /\ \A t \in Threads : cur[t].pc = "taken" => cur[t].taken.tag # "Authenticated"
    /\ \A e \in Entries : e.path = "panic" => e.taken.tag # "Authenticated"

\* C17: a handshake context is passed to context.step at most once, by one
\* request; while a request is in its step the cell holds the Unauthorized
\* placeholder; the context in a Pending cell has never been stepped and is
\* the one a Continue returned.
InFlight == {cur[t] : t \in Threads}

C17_ContextSteppedOnce ==
    /\ \A i, j \in DOMAIN log :
          (i # j /\ log[i].used # NoCtx) => log[i].used # log[j].used
    /\ \A t \in Threads : \A e \in Entries :
          cur[t].used # NoCtx => cur[t].used # e.used
    /\ \A t, u \in Threads :
          (t # u /\ cur[t].used # NoCtx) => cur[t].used # cur[u].used
    /\ InStep # {} => state = DefaultState
    /\ state.tag = "Pending" =>
          /\ \A r \in Entries \cup InFlight : r.used # state.ctx
          /\ \E e \in Entries : /\ e.result.kind = "ContinueWith"
                                /\ e.result.ctx = state.ctx
                                /\ e.result.ctx = Stepped(e.used)

C17_Witness ==
    /\ state.tag = "Pending"
    /\ \E e, f \in Entries : e.used.round = 1 /\ f.used.round = 0 /\ e.used.id = f.used.id

\* C18: when the inner service is called for the request of a Finished step,
\* the connection state is already Authenticated.
C18_AuthenticatedBeforeDownstream ==
    \A t \in Threads : cur[t].fwd => is_authenticated(state)

(* ------------- the Authenticated handle behind the layer --------------- *)
\* number of requests in a behaviour with uses of the handle
MaxHandleRequests == 3

\* headers of the requests in such a behaviour
HandleHeaders == {NoHeader} \cup {TextHeader("Negotiate ", t) : t \in GoodTexts}

\* an Authenticated exists: inserted as extension by the Finished arm, or
\* made by from_request_parts
HandleExists ==
    \/ handles
    \/ \E t \in Threads : cur[t].ext
    \/ \E e \in Entries : e.ext

CallHandle(t, h) ==
    /\ nreq < MaxHandleRequests
    /\ Enter(t, h)

\* from_request_parts: auth.read().unwrap().is_authenticated() holds,
\* Ok(Authenticated(auth))
ExtractGranted ==
    /\ lock = 0
    /\ ~poisoned
    /\ is_authenticated(state)
    /\ handles' = TRUE
    /\ probe' = [op |-> "extract", tag |-> state.tag, poisoned |-> poisoned,
                 outcome |-> "handle"]
    /\ UNCHANGED <<state, lock, poisoned, nextCtx, cur, log, nreq, listener, mechanisms>>

\* from_request_parts: the lock is poisoned or the state is not
\* authenticated, panic
ExtractPanics ==
    /\ lock = 0
    /\ poisoned \/ ~is_authenticated(state)
    /\ probe' = [op |-> "extract", tag |-> state.tag, poisoned |-> poisoned,
                 outcome |-> "panic"]
    /\ UNCHANGED <<state, lock, poisoned, nextCtx, cur, log, nreq, handles,
                   listener, mechanisms>>

\* Authenticated::call, behind client() and access_token()
HandleRead ==
    /\ HandleExists
    /\ lock = 0
    /\ probe' = [op |-> "read", tag |-> state.tag, poisoned |-> poisoned,
                 outcome |-> IF poisoned THEN "panic"
                             ELSE IF state.tag = "Authenticated" THEN state.client
                             ELSE "unreachable"]
    /\ UNCHANGED <<state, lock, poisoned, nextCtx, cur, log, nreq, handles,
                   listener, mechanisms>>

NextHandle ==
    \/ \E t \in Threads, h \in HandleHeaders : CallHandle(t, h)
    \/ \E t \in Threads : ReadPoisoned(t)
    \/ \E t \in Threads, r \in InnerResponses : FastPath(t, r)
    \/ \E t \in Threads : Rejected(t)
    \/ \E t \in Threads : Extracted(t)
    \/ \E t \in Threads : WritePoisoned(t)
    \/ \E t \in Threads : TakeState(t)
    \/ \E t \in Threads : TakenAuthenticated(t)
    \/ \E t \in Threads, o \in StepOutcomes : StepPending(t, o)
    \/ \E t \in Threads, o \in StepOutcomes : StepUnauthorized(t, o)
    \/ \E t \in Threads : ContextFailed(t)
    \/ \E t \in Threads, r \in InnerResponses : CallInner(t, r)
    \/ \E t \in Threads : InstallAuthenticated(t)
    \/ \E t \in Threads : InstallPending(t)
    \/ \E t \in Threads : InstallUnauthorized(t)
    \/ ExtractGranted
    \/ ExtractPanics
    \/ HandleRead

SpecHandle == Init /\ [][NextHandle]_vars

\* C11 as stated: in every reachable state in which an Authenticated handle
\* exists, the connection state is Authenticated, and a read through the
\* handle never takes the arm for a state that is not Authenticated.
C11_HandleImpliesAuthenticated ==
    /\ HandleExists => is_authenticated(state)
    /\ probe.op = "read" => probe.outcome # "unreachable"

\* C19: from_request_parts yields a handle exactly when the connection
\* state is Authenticated; on Unauthorized, on Pending and on a poisoned
\* lock it panics, and yields neither a handle nor a value.
C19_ExtractFailsLoudly ==
    /\ probe.op = "extract" =>
        /\ probe.outcome = "handle" <=> probe.tag = "Authenticated"
        /\ probe.outcome # "handle" => probe.outcome = "panic"
    /\ handles => \E e \in Entries : e.result.kind = "Finished"

C19_Witness ==
    /\ probe = [op |-> "extract", tag |-> "Pending", poisoned |-> FALSE,
                outcome |-> "panic"]
    /\ ~handles

C19_WitnessGranted ==
    /\ probe.op = "extract" /\ probe.outcome = "handle" /\ handles

(* ------------------ requests without NegotiateInfo --------------------- *)
\* the record of a request that came without ConnectInfo<NegotiateInfo>
Unbound == [Idle EXCEPT !.pc = "done", !.bound = FALSE, !.path = "nobinding"]

\* a get_state_from_extension that makes the layer answer 500
NoConnectInfoAnswers(t) ==
    /\ cur[t].pc = "idle"
    /\ nreq < MaxSeqRequests
    /\ nreq' = nreq + 1
    /\ log' = Append(log, [Unbound EXCEPT !.resp = failed_to_create_context]
                          @@ [after |-> state])
    /\ UNCHANGED <<state, lock, poisoned, nextCtx, cur, outside>>

\* get_state_from_extension: parts.extensions has no
\* ConnectInfo<NegotiateInfo>, panic
NoConnectInfo(t) ==
    /\ cur[t].pc = "idle"
    /\ nreq < MaxSeqRequests
    /\ nreq' = nreq + 1
    /\ log' = Append(log, [Unbound EXCEPT !.panicked = TRUE] @@ [after |-> state])
    /\ UNCHANGED <<state, lock, poisoned, nextCtx, cur, outside>>

\* requests one after another, with and without the connect info
NextBind ==
    \/ NextSeq
    \/ NoConnectInfo(1)

SpecBind == Init /\ [][NextBind]_vars

\* C20 as stated: a request without NegotiateInfo connect info is answered
\* with 500 "internal server error"; no state is mutated and the inner
\* service is not called.
C20_UnboundAnswered500 ==
    \A e \in Entries : ~e.bound =>
        /\ e.resp = Response(500, <<>>, "", "internal server error")
        /\ ~e.fwd

\* C20 amended: a request without NegotiateInfo connect info panics in
\* get_state_from_extension: the layer returns no response for it, the inner
\* service is not called, no step is taken and the state, the lock and the
\* contexts of the connection stay as they were.
C20_UnboundPanics ==
    /\ [](\A e \in Entries : ~e.bound =>
            /\ e.panicked
            /\ e.resp = NoResponse
            /\ ~e.fwd
            /\ e.result = NoResult
            /\ e.used = NoCtx)
    /\ [][(Len(log') = Len(log) + 1 /\ ~log'[Len(log')].bound)
            => UNCHANGED <<state, lock, poisoned, nextCtx>>]_vars

C20_Witness ==
    \E i \in DOMAIN log :
        /\ ~log[i].bound /\ log[i].panicked /\ log[i].after.tag = "Pending"
        /\ i < Len(log) /\ log[i+1].taken = log[i].after

(* ------------------ the connections of a listener ---------------------- *)
\* number of connections the listener accepts
MaxConns == 2
\* number of requests served on them
MaxConnRequests == 3

\* a listener that hands the same NegotiateInfo to every connection
AcceptShared ==
    /\ Len(conns) < MaxConns
    /\ cells' = IF cells = <<>> THEN << DefaultState >> ELSE cells
    /\ conns' = Append(conns, 1)
    /\ UNCHANGED <<state, lock, poisoned, nextCtx, cur, log, nreq, handles, probe,
                   clog, mechanisms>>

\* HasNegotiateInfo::accept: Negotiator(io, NegotiateInfo::new()), a new
\* cell holding the default state
Accept ==
    /\ Len(conns) < MaxConns
    /\ cells' = Append(cells, DefaultState)
    /\ conns' = Append(conns, Len(cells) + 1)
    /\ UNCHANGED <<state, lock, poisoned, nextCtx, cur, log, nreq, handles, probe,
                   clog, mechanisms>>

\* Connected::connect_info: target.io().1.clone(), the Arc of connection c
connect_info(c) == conns[c]

\* the state call() leaves in a cell that held s, for a request with
\* Authorization h: built says whether ContextBuilder::new succeeded (to
\* the context fresh), o is what the step returned
CallLeaves(s, h, built, fresh, o) ==
    IF is_authenticated(s) THEN s
    ELSE IF ~extract_token(h).ok THEN s
    ELSE IF s.tag = "Unauthorized" /\ ~built THEN DefaultState
    ELSE LET context == IF s.tag = "Pending" THEN s.ctx ELSE fresh
             r == handle_sspi(context, extract_token(h).token, o)
         IN  IF r.kind = "Finished" THEN Authenticated(r.ctx, r.client)
             ELSE IF r.kind = "ContinueWith" THEN Pending(r.ctx)
             ELSE Unauthorized

\* a request on connection c goes through call() with the cell of its
\* connect info
ConnRequest(c, h, built, o) ==
    /\ Len(clog) < MaxConnRequests
    /\ LET auth == connect_info(c)
           s == cells[auth]
           stepping == ~is_authenticated(s) /\ extract_token(h).ok
                       /\ s.tag = "Unauthorized" /\ built
       IN  /\ cells' = [cells EXCEPT ![auth] =
                          CallLeaves(s, h, built, [id |-> nextCtx + 1, round |-> 0], o)]
           /\ nextCtx' = IF stepping THEN nextCtx + 1 ELSE nextCtx
           /\ clog' = Append(clog, [conn |-> c, cell |-> auth,
                                    before |-> cells, after |-> cells'])
    /\ UNCHANGED <<state, lock, poisoned, cur, log, nreq, handles, probe,
                   conns, mechanisms>>

NextConn ==
    \/ Accept
    \/ \E c \in DOMAIN conns, h \in AuthorizationValues, built \in BOOLEAN,
          o \in StepOutcomes : ConnRequest(c, h, built, o)

SpecConn == Init /\ [][NextConn]_vars

\* C14: every accepted connection has a cell of its own, which holds
\* Unauthorized when its first request arrives; the requests of a connection
\* all work on that cell; a request on one connection leaves the cell of
\* every other connection as it was.
C14_ConnectionsIsolated ==
    /\ \A c, d \in DOMAIN conns : c # d => conns[c] # conns[d]
    /\ \A i \in DOMAIN clog :
        /\ clog[i].cell = conns[clog[i].conn]
        /\ (\A j \in 1..(i-1) : clog[j].conn # clog[i].conn)
              => clog[i].before[clog[i].cell] = Unauthorized
        /\ \A j \in 1..(i-1) : clog[j].conn = clog[i].conn => clog[j].cell = clog[i].cell
        /\ \A d \in DOMAIN conns :
              (d # clog[i].conn /\ conns[d] <= Len(clog[i].before))
              => clog[i].after[conns[d]] = clog[i].before[conns[d]]

C14_Witness ==
    /\ Len(conns) = 2
    /\ \E i, j \in DOMAIN clog :
          /\ i < j /\ clog[i].conn = 1 /\ clog[j].conn = 2
          /\ clog[i].after[conns[1]].tag = "Authenticated"
          /\ clog[j].before[conns[2]] = Unauthorized
          /\ clog[j].after[conns[2]].tag = "Pending"
          /\ clog[j].after[conns[1]].tag = "Authenticated"

(* ------------------ a layer with two mechanisms ------------------------ *)
\* number of requests with a token on the connection
MaxMechRequests == 3

Mechanisms == {"Ntlm", "Kerberos"}

\* "NTLMSSP\0", the bytes an NTLM message starts with
NtlmSignature == <<78, 84, 76, 77, 83, 83, 80, 0>>

\* the tokens a client sends: "TlRMTVNTUAA=" (the NTLM signature), "YIIo"
\* (the start of a SPNEGO token) and a text that is not base64
NtlmTexts == { <<19, 37, 17, 12, 19, 21, 13, 19, 20, 0, 0, PAD>> }
MechTexts == NtlmTexts \cup GoodTexts \cup BadTexts

\* PendingServerContext::{Ntlm, Kerberos}, FinishedServerContext::{Ntlm, Kerberos}
MechContext(m, n) == [mech |-> m, round |-> n]

\* a handle_ntlm that hands its context back as a Kerberos one
handle_ntlm_as_kerberos(ntlm, header, o) ==
    IF ~Decode(header).ok THEN Error(Response(400, <<>>, "", ""))
    ELSE IF o.kind = "Continue" THEN
        ContinueWith(MechContext("Kerberos", ntlm.round + 1),
                     Response(401, << to_negotiate_header(o.bytes) >>, "keep-alive", ""),
                     o.bytes)
    ELSE IF o.kind = "Finished" THEN
        Finished(MechContext("Ntlm", ntlm.round + 1), o.client, None)
    ELSE Error(unauthorized("authorization failed"))

handle_ntlm(ntlm, header, o) ==
    IF ~Decode(header).ok THEN Error(Response(400, <<>>, "", ""))
    ELSE IF o.kind = "Continue" THEN
        ContinueWith(MechContext("Ntlm", ntlm.round + 1),
                     Response(401, << to_negotiate_header(o.bytes) >>, "keep-alive", ""),
                     o.bytes)
    ELSE IF o.kind = "Finished" THEN
        Finished(MechContext("Ntlm", ntlm.round + 1), o.client, None)
    ELSE Error(unauthorized("authorization failed"))

handle_kerberos(context, token, o) ==
    IF ~Decode(token).ok THEN Error(Response(400, <<>>, "", ""))
    ELSE IF o.kind = "Continue" THEN
        ContinueWith(MechContext("Kerberos", context.round + 1),
                     Response(401, << to_negotiate_header(o.bytes) >>, "keep-alive", ""),
                     o.bytes)
    ELSE IF o.kind = "Finished" THEN
        Finished(MechContext("Kerberos", context.round + 1), o.client, None)
    ELSE Error(unauthorized("authorization failed"))

\* the mechanism a token looks like: the NTLM signature in front, or else
\* Kerberos/SPNEGO
IsNtlm(bytes) == Len(bytes) >= Len(NtlmSignature)
                 /\ SubSeq(bytes, 1, Len(NtlmSignature)) = NtlmSignature
Resembles(token) == IF Decode(token).ok /\ IsNtlm(Decode(token).bytes) THEN "Ntlm"
                    ELSE "Kerberos"
MechanismSelector(token) == Resembles(token)

\* what the step of a context of mechanism m can return for a token: a
\* token of the other mechanism is rejected
AdapterOutcomes(m, token) ==
    IF ~Decode(token).ok \/ Resembles(token) # m
    THEN {o \in StepOutcomes : o.kind = "Err"}
    ELSE StepOutcomes

\* the step of the handler that belongs to the context
StepMechanism(context, token, o) ==
    IF context.mech = "Ntlm" THEN handle_ntlm(context, token, o)
    ELSE handle_kerberos(context, token, o)

MechUnauthorized == [tag |-> "Unauthorized", mech |-> "none", round |-> 0]

\* a request with "Authorization: Negotiate <token>" on the connection
MechRequest(token, o) ==
    /\ Len(mlog) < MaxMechRequests
    /\ mcell.tag # "Authenticated"
    /\ LET taken == mcell
           selected == taken.tag = "Unauthorized"
           context == IF taken.tag = "Pending" THEN MechContext(taken.mech, taken.round)
                      ELSE MechContext(MechanismSelector(token), 0)
       IN  /\ o \in AdapterOutcomes(context.mech, token)
           /\ LET r == StepMechanism(context, token, o)
              IN  /\ mcell' = IF r.kind = "Finished"
                                THEN [tag |-> "Authenticated", mech |-> r.ctx.mech, round |-> r.ctx.round]
                              ELSE IF r.kind = "ContinueWith"
                                THEN [tag |-> "Pending", mech |-> r.ctx.mech, round |-> r.ctx.round]
                              ELSE MechUnauthorized
                  /\ mlog' = Append(mlog,
                        [before |-> taken.tag, beforeMech |-> taken.mech,
                         decodable |-> Decode(token).ok, looks |-> Resembles(token),
                         selected |-> selected, adapter |-> context.mech,
                         kind |-> r.kind, status |-> r.resp.status,
                         after |-> mcell'.tag, afterMech |-> mcell'.mech])
    /\ UNCHANGED <<state, lock, poisoned, nextCtx, cur, log, nreq, handles, probe,
                   listener>>

NextMech == \E token \in MechTexts, o \in StepOutcomes : MechRequest(token, o)

SpecMech == Init /\ [][NextMech]_vars

Step(t) ==
    \/ ReadPoisoned(t)
    \/ \E r \in InnerResponses : FastPath(t, r)
    \/ Rejected(t)
    \/ Extracted(t)
    \/ WritePoisoned(t)
    \/ TakeState(t)
    \/ TakenAuthenticated(t)
    \/ \E o \in StepOutcomes : StepPending(t, o)
    \/ \E o \in StepOutcomes : StepUnauthorized(t, o)
    \/ ContextFailed(t)
    \/ \E r \in InnerResponses : CallInner(t, r)
    \/ InstallAuthenticated(t)
    \/ InstallPending(t)
    \/ InstallUnauthorized(t)

\* call() has no await point and context.step returns: a request that can
\* take its next step is not left standing forever
SpecLive == Init /\ [][Next]_vars /\ \A t \in Threads : WF_vars(Step(t))

\* every request that entered call() leaves it, by return or by panic
EveryRequestLeaves ==
    \A t \in Threads : (cur[t].pc # "idle") ~> (cur[t].pc = "idle")

\* a request holds no guard while it reads the state or asks for the write
\* lock, and holds none when it has left call()
GuardsReleased ==
    /\ [](\A t \in Threads : cur[t].pc \in {"idle", "check", "lock"} => lock # t)
    /\ [][\A t \in Threads : (cur[t].pc # "idle" /\ cur'[t].pc = "idle") => lock' # t]_vars

\* the lock is never poisoned: read() and write() of later requests succeed
LockStaysUsable == [](~poisoned)

\* every request leaves call() with a response or with the future of the
\* inner service, none by a panic
NoRequestPanics == [](\A e \in Entries : ~e.panicked)

\* C21: under any interleaving of the requests of one connection, every
\* request that entered call() eventually leaves it with a response or the
\* inner service's future; the read guard is gone before write() is called,
\* the write guard is released on every way out, and the lock never becomes
\* unusable for later requests.
C21_DeadlockFreedom ==
    /\ EveryRequestLeaves
    /\ GuardsReleased
    /\ LockStaysUsable
    /\ NoRequestPanics

====
